---- MODULE Spec2Model ----
(***************************************************************************)
(* Model of repo2docker/buildpacks/conda/freeze.py: the script that        *)
(* regenerates the per-version conda environment files and freezes them    *)
(* into lock files with conda-lock.                                        *)
(*                                                                         *)
(* Text is modelled at character level: a string is a sequence of          *)
(* one-character strings, a file is the sequence of its lines (without     *)
(* the trailing newline), and the file system maps the names of the files  *)
(* in HERE to their content.                                               *)
(***************************************************************************)
EXTENDS Integers, Sequences, FiniteSets, TLC

\* ---------------------------------------------------------------- bounds
\* longest command line explored
MaxArgs == 2
\* the clock stops advancing here
MaxTime == 3

\* ----------------------------------------------------------- text helpers
Min(S) == CHOOSE x \in S : \A y \in S : x <= y
Max(S) == CHOOSE x \in S : \A y \in S : y <= x

\* Python's `sub in line`
Contains(line, sub) ==
    \E k \in 0..(Len(line) - Len(sub)) : SubSeq(line, k + 1, k + Len(sub)) = sub

\* Python's line.startswith(prefix)
StartsWith(line, prefix) ==
    Len(prefix) <= Len(line) /\ SubSeq(line, 1, Len(prefix)) = prefix

\* dep.split("=")[0]: the text before the first "="
SplitEq0(dep) ==
    LET eqs == {k \in 1..Len(dep) : dep[k] = "="}
    IN  IF eqs = {} THEN dep ELSE SubSeq(dep, 1, Min(eqs) - 1)

\* os.path.splitext(p)[0] for a name without directory part: cut at the last
\* dot, unless only dots precede it
splitext0(p) ==
    LET dots == {k \in 1..Len(p) : p[k] = "."}
    IN  IF dots = {} THEN p
        ELSE IF \E k \in 1..(Max(dots) - 1) : p[k] # "."
             THEN SubSeq(p, 1, Max(dots) - 1)
             ELSE p

\* the marker looked for in the first line of a target
Marker == <<"G","E","N","E","R","A","T","E","D">>

\* f.readline() on a freshly opened file, newline dropped
ReadLine(content) == IF content = << >> THEN << >> ELSE content[1]

\* the test the wrong way round: `"GENERATED" in line`
NotGenerated_inverted(line) == Contains(line, Marker)

\* `"GENERATED" not in line`: the file is not auto-generated
NotGenerated(line) == ~Contains(line, Marker)

\* ------------------------------------------------------------------ paths
ENV_FILE == <<"e","n","v","i","r","o","n","m","e","n","t",".","y","m","l">>

FROZEN_FILE_T(platform) == splitext0(ENV_FILE) \o <<"-">> \o platform \o <<".","l","o","c","k">>

ENV_FILE_T(py) == <<"e","n","v","i","r","o","n","m","e","n","t",".","p","y","-">> \o py \o <<".","y","m","l">>

\* frozen_file of the main loop
FrozenFile(env_file, platform) == splitext0(env_file) \o <<"-">> \o platform \o <<".","l","o","c","k">>

\* frozen_tempfile of freeze
FrozenTempfile(frozen_dest, platform) == frozen_dest \o <<".">> \o platform

\* ------------------------------------------------------------ file system
Exists(files, p) == p \in DOMAIN files

Put(files, p, content) ==
    [q \in (DOMAIN files) \cup {p} |-> IF q = p THEN content ELSE files[q]]

Remove(files, p) == [q \in (DOMAIN files) \ {p} |-> files[q]]

\* ------------------------------------------------------------ command line
DefaultPy == << <<"3",".","7">>, <<"3",".","8">>, <<"3",".","9">>, <<"3",".","1","0">> >>
DefaultPlatform == << <<"l","i","n","u","x","-","6","4">>, <<"l","i","n","u","x","-","a","a","r","c","h","6","4">> >>

\* How argparse shares n positional strings between the two nargs="*"
\* positionals: the patterns are matched in order, each as much as it can take
MatchPositionals(n) ==
    LET splits == {s \in (0..n) \X (0..n) : s[1] + s[2] = n}
    IN  CHOOSE s \in splits : \A t \in splits : t[1] <= s[1]

\* parser.parse_args(): an empty "*" positional takes its default
Namespace(av) ==
    LET m == MatchPositionals(Len(av))
        pys == SubSeq(av, 1, m[1])
        plats == SubSeq(av, m[1] + 1, m[1] + m[2])
    IN  [py |-> IF pys = << >> THEN DefaultPy ELSE pys,
         platform |-> IF plats = << >> THEN DefaultPlatform ELSE plats]

\* another default version
default_py_38 == <<"3",".","8">>

default_py == <<"3",".","7">>

\* ------------------------------------------------------------------- YAML
DependenciesKey == <<"d","e","p","e","n","d","e","n","c","i","e","s",":">>
ItemPrefix == <<"-"," ">>

\* the entries of a block sequence: the "- " lines, prefix dropped
Items(lines) ==
    LET items == SelectSeq(lines, LAMBDA l : StartsWith(l, ItemPrefix))
    IN  [k \in 1..Len(items) |-> SubSeq(items[k], Len(ItemPrefix) + 1, Len(items[k]))]

\* yaml.load(f) of a manifest: what precedes the dependencies key, and the
\* dependency list that follows it
YamlLoad(content) ==
    LET d == Min({k \in 1..Len(content) : content[k] = DependenciesKey})
    IN  [pre |-> SubSeq(content, 1, d - 1),
         dependencies |-> Items(SubSeq(content, d + 1, Len(content)))]

\* yaml.dump(env, f)
YamlDump(env) ==
    env.pre \o <<DependenciesKey>>
            \o [k \in 1..Len(env.dependencies) |-> ItemPrefix \o env.dependencies[k]]

\* ---------------------------------------------------------------- stamps
Digits == <<"0","1","2","3","4","5","6","7","8","9">>

\* f"{datetime.utcnow():%Y-%m-%d %H:%M:%S UTC}", the date reduced to a tick
Timestamp(t) == <<Digits[t + 1]>> \o <<" ","U","T","C">>

AutoGeneratedLine(rel) ==
    <<"#"," ","A","U","T","O"," ","G","E","N","E","R","A","T","E","D"," ","F","R","O","M"," ">> \o rel \o <<","," ","D","O"," ","N","O","T"," ","M","A","N","U","A","L","L","Y"," ","M","O","D","I","F","Y">>

FrozenOnLine(t) == <<"#"," ","F","r","o","z","e","n"," ","o","n"," ">> \o Timestamp(t)

GeneratedOnLine(t) == <<"#"," ","G","e","n","e","r","a","t","e","d"," ","o","n"," ">> \o Timestamp(t)

\* ------------------------------------------------------------- set_python
PythonName == <<"p","y","t","h","o","n">>

\* dep.startswith("python") in place of the comparison of the name
IsPythonDep_prefix(dep) == StartsWith(dep, PythonName)

\* dep.split("=")[0] == "python"
IsPythonDep(dep) == SplitEq0(dep) = PythonName

\* the index at which the for loop breaks, 0 when it runs to its else
FirstPython(deps) ==
    LET hits == {k \in 1..Len(deps) : IsPythonDep(deps[k])}
    IN  IF hits = {} THEN 0 ELSE Min(hits)

\* the loop without its else clause
PythonNotFound_never(idx) == FALSE

\* the for ... else clause: no break happened
PythonNotFound(idx) == idx = 0

\* f"python={py}.*"
PythonPin(py) == <<"p","y","t","h","o","n","=">> \o py \o <<".","*">>

\* env["dependencies"][idx] = f"python={py}.*"
PinPython(env, idx, py) ==
    [env EXCEPT !.dependencies =
        [k \in 1..Len(env.dependencies) |->
            IF k = idx THEN PythonPin(py) ELSE env.dependencies[k]]]

\* what set_python writes to py_env_file
PyEnvContent(env, t) ==
    <<AutoGeneratedLine(ENV_FILE), GeneratedOnLine(t)>> \o YamlDump(env)

\* ------------------------------------------------------------- conda-lock
ExplicitLine == <<"@","E","X","P","L","I","C","I","T">>

\* the explicit lock conda-lock resolves from an environment file for a platform
LockOutput(envContent, platform) ==
    LET deps == Items(envContent)
    IN  <<ExplicitLine>> \o [k \in 1..Len(deps) |-> deps[k] \o <<"@">> \o platform]

\* what a run of conda-lock leaves in its output file: the lock when it exits
\* 0, the beginning of one when it fails after opening the file
ToolFile(rc, envContent, platform) ==
    IF rc = 0 THEN LockOutput(envContent, platform) ELSE <<ExplicitLine>>

\* subprocess.call in place of check_call: the exit status is dropped
CheckCallRaises_never(rc) == FALSE

\* check_call raises CalledProcessError on a non-zero exit status
CheckCallRaises(rc) == rc # 0

\* what freeze writes to frozen_dest
FrozenContent(env_rel, t, temp) ==
    <<AutoGeneratedLine(env_rel), FrozenOnLine(t)>> \o temp

\* the temporary file left behind
OsRemove_forgotten(files, p) == files

\* os.remove(frozen_tempfile)
OsRemove(files, p) == Remove(files, p)

\* ------------------------------------------------------------------ inputs
\* versions and platforms a caller may name on the command line
ArgVersions == { <<"3",".","7">>, <<"3",".","8">> }
ArgPlatforms == { <<"l","i","n","u","x","-","6","4">> }

SeqsUpTo(S, n) == UNION {[1..k -> S] : k \in 0..n}

\* command lines of the documented shape: versions, then platforms
Argvs ==
    {av \in {vs \o ps : vs \in SeqsUpTo(ArgVersions, MaxArgs),
                         ps \in SeqsUpTo(ArgPlatforms, MaxArgs)} : Len(av) <= MaxArgs}

\* every string the loop can bind py to
PyTokens == {DefaultPy[k] : k \in 1..Len(DefaultPy)} \cup ArgVersions \cup ArgPlatforms

Platforms == {DefaultPlatform[k] : k \in 1..Len(DefaultPlatform)} \cup ArgPlatforms

\* base manifests: a plain one, one where an entry that only starts with
\* "python" precedes two python entries, one without python
Manifests ==
    { << <<"n","a","m","e",":"," ","r","2","d">>, DependenciesKey, <<"-"," ","p","y","t","h","o","n","=","3",".","7">>, <<"-"," ","p","i","p">> >>,
      << DependenciesKey, <<"-"," ","p","y","t","h","o","n","-","d","a","t","e","u","t","i","l","=","2">>, <<"-"," ","p","y","t","h","o","n","=","3",".","7">>, <<"-"," ","p","y","t","h","o","n","=","3",".","6">> >>,
      << DependenciesKey, <<"-"," ","p","i","p">>, <<"-"," ","p","y","t","h","o","n","-","d","a","t","e","u","t","i","l","=","2">> >> }

\* what a target can be before the run
Kinds == {"absent", "generated", "edited", "empty"}

OldEnvContent(kind) ==
    CASE kind = "generated" ->
            << AutoGeneratedLine(ENV_FILE), GeneratedOnLine(0),
               DependenciesKey, <<"-"," ","p","y","t","h","o","n","=","2",".","7",".","*">> >>
      [] kind = "edited" -> << <<"#"," ","e","d","i","t","e","d"," ","b","y"," ","h","a","n","d">>, DependenciesKey, <<"-"," ","p","y","t","h","o","n","=","2",".","7">> >>
      [] OTHER -> << >>

OldLockContent(kind, env_rel) ==
    CASE kind = "generated" ->
            << AutoGeneratedLine(env_rel), FrozenOnLine(0), ExplicitLine, <<"o","l","d">> >>
      [] kind = "edited" -> << <<"#"," ","G","e","n","e","r","a","t","e","d"," ","b","y"," ","c","o","n","d","a","-","l","o","c","k",".">>, ExplicitLine, <<"p","i","n","n","e","d">> >>
      [] OTHER -> << >>

InitialFiles(manifest, envKind, lockKind, defaultKind) ==
    LET envs == IF envKind = "absent" THEN {} ELSE {ENV_FILE_T(py) : py \in PyTokens}
        locks == IF lockKind = "absent" THEN {}
                 ELSE {FrozenFile(ENV_FILE_T(py), pl) : py \in PyTokens, pl \in Platforms}
        defaults == IF defaultKind = "absent" THEN {}
                    ELSE {FROZEN_FILE_T(pl) : pl \in Platforms}
        envOf(p) == CHOOSE e \in {ENV_FILE_T(py) : py \in PyTokens} :
                        \E pl \in Platforms : p = FrozenFile(e, pl)
    IN  [p \in {ENV_FILE} \cup envs \cup locks \cup defaults |->
            IF p = ENV_FILE THEN manifest
            ELSE IF p \in envs THEN OldEnvContent(envKind)
            ELSE IF p \in locks THEN OldLockContent(lockKind, envOf(p))
            ELSE OldLockContent(defaultKind, ENV_FILE_T(default_py))]

\* ------------------------------------------------------------------- state
VARIABLES
    argv,      \* sys.argv[1:]
    args,      \* the parsed namespace: args.py, args.platform
    i,         \* position of the outer loop in args.py
    j,         \* position of the inner loop in args.platform
    pc,        \* "parse", "set_python", "freeze", "copy", "done", "error"
    exc,       \* the exception that ended the run
    fs,        \* the files of HERE: name -> lines
    now,       \* the clock utcnow reads
    fs0,       \* history: fs before the run
    writes,    \* history: name -> times the script opened it for writing or copied onto it
    calls,     \* history: the calls the main loop made
    tool       \* history: the conda-lock invocations

vars == <<argv, args, i, j, pc, exc, fs, now, fs0, writes, calls, tool>>

Count(w, p) == IF p \in DOMAIN w THEN w[p] ELSE 0
Bump(w, p) == [q \in (DOMAIN w) \cup {p} |-> IF q = p THEN Count(w, p) + 1 ELSE w[q]]

\* datetime.utcnow() moves on between two stamps
Tick(t) == IF t < MaxTime THEN t + 1 ELSE t

Call(op, v, pl) == [op |-> op, py |-> v, platform |-> pl]

Init ==
    /\ argv \in Argvs
    /\ \E m \in Manifests, ek \in Kinds, lk \in Kinds, dk \in Kinds :
           fs = InitialFiles(m, ek, lk, dk)
    /\ fs0 = fs
    /\ args = [py |-> << >>, platform |-> << >>]
    /\ i = 1
    /\ j = 1
    /\ pc = "parse"
    /\ exc = "none"
    /\ now = 1
    /\ writes = [p \in {} |-> 0]
    /\ calls = << >>
    /\ tool = << >>

\* the loop variables of the pair in hand
py == args.py[i]
platform == args.platform[j]
env_file == ENV_FILE_T(py)
frozen_file == FrozenFile(env_file, platform)

\* args = parser.parse_args(), and entry into the loops
parse_args ==
    /\ pc = "parse"
    /\ args' = Namespace(argv)
    /\ pc' = IF args'.py = << >> \/ args'.platform = << >> THEN "done" ELSE "set_python"
    /\ UNCHANGED <<argv, i, j, exc, fs, now, fs0, writes, calls, tool>>

\* the next iteration of `for py in args.py: for platform in args.platform:`
NextPair ==
    IF j < Len(args.platform) THEN pc' = "set_python" /\ j' = j + 1 /\ i' = i
    ELSE IF i < Len(args.py) THEN pc' = "set_python" /\ j' = 1 /\ i' = i + 1
    ELSE pc' = "done" /\ UNCHANGED <<i, j>>

\* set_python(env_file, py)
set_python ==
    /\ pc = "set_python"
    /\ calls' = Append(calls, Call("set_python", py, platform))
    /\ IF Exists(fs, env_file) /\ NotGenerated(ReadLine(fs[env_file]))
       THEN /\ pc' = "freeze"
            /\ UNCHANGED <<exc, fs, now, writes>>
       ELSE LET env == YamlLoad(fs[ENV_FILE])
                idx == FirstPython(env.dependencies)
            IN  IF PythonNotFound(idx)
                THEN /\ pc' = "error"
                     /\ exc' = "ValueError"
                     /\ UNCHANGED <<fs, now, writes>>
                ELSE /\ fs' = Put(fs, env_file, PyEnvContent(PinPython(env, idx, py), now))
                     /\ writes' = Bump(writes, env_file)
                     /\ now' = Tick(now)
                     /\ pc' = "freeze"
                     /\ exc' = exc
    /\ UNCHANGED <<argv, args, i, j, fs0, tool>>

\* the statement after freeze(...) returns
AfterFreeze ==
    IF py = default_py THEN pc' = "copy" /\ UNCHANGED <<i, j>> ELSE NextPair

\* freeze(env_file, frozen_file, platform)
freeze ==
    /\ pc = "freeze"
    /\ calls' = Append(calls, Call("freeze", py, platform))
    /\ IF Exists(fs, frozen_file) /\ NotGenerated(ReadLine(fs[frozen_file]))
       THEN /\ AfterFreeze
            /\ UNCHANGED <<exc, fs, now, writes, tool>>
       ELSE \E rc \in {0, 1}, wrote \in BOOLEAN :
            LET temp == FrozenTempfile(frozen_file, platform)
                out == ToolFile(rc, fs[env_file], platform)
                fs1 == IF wrote THEN Put(fs, temp, out) ELSE fs
            IN  /\ tool' = Append(tool, [platform |-> platform, file |-> env_file,
                                         rc |-> rc, wrote |-> wrote, out |-> out])
                /\ IF CheckCallRaises(rc)
                   THEN /\ pc' = "error"
                        /\ exc' = "CalledProcessError"
                        /\ fs' = fs1
                        /\ UNCHANGED <<i, j, now, writes>>
                   ELSE IF ~Exists(fs1, temp)
                   THEN /\ pc' = "error"
                        /\ exc' = "FileNotFoundError"
                        /\ fs' = Put(fs1, frozen_file, FrozenContent(env_file, now, << >>))
                        /\ writes' = Bump(writes, frozen_file)
                        /\ now' = Tick(now)
                        /\ UNCHANGED <<i, j>>
                   ELSE /\ fs' = OsRemove(Put(fs1, frozen_file,
                                              FrozenContent(env_file, now, fs1[temp])), temp)
                        /\ writes' = Bump(writes, frozen_file)
                        /\ now' = Tick(now)
                        /\ exc' = exc
                        /\ AfterFreeze
    /\ UNCHANGED <<argv, args, fs0>>

\* shutil.copy(frozen_file, FROZEN_FILE_T.format(platform=platform))
copy ==
    /\ pc = "copy"
    /\ calls' = Append(calls, Call("copy", py, platform))
    /\ IF Exists(fs, frozen_file)
       THEN /\ fs' = Put(fs, FROZEN_FILE_T(platform), fs[frozen_file])
            /\ writes' = Bump(writes, FROZEN_FILE_T(platform))
            /\ exc' = exc
            /\ NextPair
       ELSE /\ pc' = "error"
            /\ exc' = "FileNotFoundError"
            /\ UNCHANGED <<i, j, fs, writes>>
    /\ UNCHANGED <<argv, args, now, fs0, tool>>

Next == parse_args \/ set_python \/ freeze \/ copy

Spec == Init /\ [][Next]_vars

\* ------------------------------------------------------------------ claims
\* the first line of a file's content carries the marker
HasMarker(content) == Contains(ReadLine(content), Marker)

Last(s) == s[Len(s)]

Range(s) == {s[k] : k \in 1..Len(s)}

NoRepeats(s) == \A a, b \in 1..Len(s) : s[a] = s[b] => a = b

Py37 == <<"3",".","7">>

\* the files the refusal covers: per-version environment files, per-version
\* per-platform lock files, default lock files
EnvFiles == {ENV_FILE_T(v) : v \in PyTokens}
LockFiles == {FrozenFile(ENV_FILE_T(v), pl) : v \in PyTokens, pl \in Platforms}
DefaultLockFiles == {FROZEN_FILE_T(pl) : pl \in Platforms}

\* C1: a file that exists before the run and whose first line lacks
\* "GENERATED" has the same content at every later point of the run.
C1_HandEditedKept ==
    \A p \in (EnvFiles \cup LockFiles \cup DefaultLockFiles) \cap DOMAIN fs0 :
        ~HasMarker(fs0[p]) => p \in DOMAIN fs /\ fs[p] = fs0[p]

\* C2: every file set_python, freeze or the copy has written has "GENERATED"
\* in its first line.
C2_WrittenFilesMarked ==
    \A p \in DOMAIN writes : p \in DOMAIN fs /\ HasMarker(fs[p])

\* C6: in a run over distinct versions, no environment file and no lock file
\* is written more than once.
C6_WrittenOnce ==
    NoRepeats(args.py) =>
        \A p \in (EnvFiles \cup LockFiles) \cap DOMAIN writes : writes[p] <= 1

\* the set_python and freeze calls a run over versions vs and platforms ps
\* makes: version-major, set_python before freeze for each pair
ExpectedCalls(vs, ps) ==
    [k \in 1..(2 * Len(vs) * Len(ps)) |->
        LET pair == (k - 1) \div 2
        IN  Call(IF k % 2 = 1 THEN "set_python" ELSE "freeze",
                 vs[(pair \div Len(ps)) + 1], ps[(pair % Len(ps)) + 1])]

\* C7: without arguments the run covers the default versions and platforms;
\* versions and platforms given on the command line are bound to the version
\* list and to the platform list; a completed run has processed each pair of
\* the cross product once, version-major, set_python before freeze.
C7_CommandLine ==
    pc # "parse" =>
        LET vs == SelectSeq(argv, LAMBDA a : a \in ArgVersions)
            ps == SelectSeq(argv, LAMBDA a : a \in ArgPlatforms)
        IN  /\ argv = << >> =>
                /\ args.py = << <<"3",".","7">>, <<"3",".","8">>, <<"3",".","9">>, <<"3",".","1","0">> >>
                /\ args.platform = << <<"l","i","n","u","x","-","6","4">>, <<"l","i","n","u","x","-","a","a","r","c","h","6","4">> >>
            /\ vs # << >> /\ ps # << >> => args.py = vs /\ args.platform = ps
            /\ pc = "done" =>
                SelectSeq(calls, LAMBDA c : c.op # "copy")
                    = ExpectedCalls(args.py, args.platform)

\* C3 as stated: a target that exists with the marker is left alone, a target
\* that exists without it is written, by set_python and by freeze alike.
C3_AsStated ==
    [][ /\ (pc = "set_python" /\ Exists(fs, env_file)) =>
              IF HasMarker(fs[env_file])
              THEN fs' = fs /\ writes' = writes
              ELSE Count(writes', env_file) = Count(writes, env_file) + 1
        /\ (pc = "freeze" /\ Exists(fs, frozen_file)) =>
              IF HasMarker(fs[frozen_file])
              THEN fs' = fs /\ writes' = writes
              ELSE Count(writes', frozen_file) = Count(writes, frozen_file) + 1 ]_vars

\* C3 amended: a target that exists without the marker is skipped (set_python
\* and freeze leave every file alone, freeze does not run conda-lock); a target
\* that exists with the marker is regenerated: set_python writes it unless the
\* base manifest has no python entry, freeze runs conda-lock and writes it
\* unless conda-lock fails.
C3_MarkerMeansOverwrite ==
    [][ /\ (pc = "set_python" /\ Exists(fs, env_file)) =>
              IF HasMarker(fs[env_file])
              THEN \/ pc' = "error" /\ exc' = "ValueError" /\ fs' = fs /\ writes' = writes
                   \/ /\ pc' = "freeze"
                      /\ Count(writes', env_file) = Count(writes, env_file) + 1
              ELSE pc' = "freeze" /\ fs' = fs /\ writes' = writes
        /\ (pc = "freeze" /\ Exists(fs, frozen_file)) =>
              IF HasMarker(fs[frozen_file])
              THEN /\ Len(tool') = Len(tool) + 1
                   /\ IF Last(tool').rc = 0
                      THEN Count(writes', frozen_file) = Count(writes, frozen_file) + 1
                      ELSE /\ pc' = "error"
                           /\ writes' = writes
                           /\ fs'[frozen_file] = fs[frozen_file]
              ELSE pc' # "error" /\ fs' = fs /\ writes' = writes /\ tool' = tool ]_vars

\* a hand-edited environment file was skipped, then a generated lock file was
\* refrozen
C3_Witness ==
    /\ Len(calls) = 2
    /\ calls[2].op = "freeze"
    /\ pc # "error"
    /\ LET e == ENV_FILE_T(calls[1].py)
           l == FrozenFile(e, calls[1].platform)
       IN  /\ e \in DOMAIN fs0 /\ ReadLine(fs0[e]) # << >> /\ ~HasMarker(fs0[e])
           /\ fs[e] = fs0[e] /\ Count(writes, e) = 0
           /\ l \in DOMAIN fs0 /\ HasMarker(fs0[l])
           /\ fs[l] # fs0[l] /\ Count(writes, l) = 1

\* C4: a failing conda-lock ends the run with CalledProcessError, the
\* destination lock file is as it was before the call (same content, or still
\* absent), nothing was written by the script, and no step follows: no later
\* pair, no copy for the failing pair.
C4_ToolFailureIsFatal ==
    [][ /\ (pc = "freeze" /\ Len(tool') = Len(tool) + 1 /\ Last(tool').rc # 0) =>
              /\ pc' = "error"
              /\ exc' = "CalledProcessError"
              /\ Exists(fs', frozen_file) = Exists(fs, frozen_file)
              /\ Exists(fs, frozen_file) => fs'[frozen_file] = fs[frozen_file]
              /\ writes' = writes
              /\ Last(calls') = Call("freeze", py, platform)
        /\ exc # "CalledProcessError" ]_vars

\* conda-lock failed on the first pair of a run with more pairs to come, over
\* a generated lock file, and left its output file behind
C4_Witness ==
    /\ exc = "CalledProcessError"
    /\ i = 1 /\ j = 1 /\ Len(args.platform) > 1
    /\ py = Py37
    /\ frozen_file \in DOMAIN fs0 /\ fs[frozen_file] = fs0[frozen_file]
    /\ FrozenTempfile(frozen_file, platform) \in DOMAIN fs
    /\ ~Exists(fs, FROZEN_FILE_T(platform))

\* C5: when the target may be regenerated and no entry of the base manifest
\* is named python, set_python ends the run with ValueError, leaves every
\* file as it was, and no step follows: freeze is not called for the pair.
C5_MissingPythonIsFatal ==
    [][ /\ ( /\ pc = "set_python"
             /\ (~Exists(fs, env_file) \/ HasMarker(fs[env_file]))
             /\ \A d \in Range(Items(fs[ENV_FILE])) : SplitEq0(d) # PythonName ) =>
              /\ pc' = "error"
              /\ exc' = "ValueError"
              /\ fs' = fs
              /\ writes' = writes
              /\ Last(calls') = Call("set_python", py, platform)
        /\ exc # "ValueError" ]_vars

\* set_python raised over a generated target, which still has its old content
C5_Witness ==
    /\ exc = "ValueError"
    /\ env_file \in DOMAIN fs0 /\ HasMarker(fs0[env_file])
    /\ fs = fs0
    /\ Len(calls) = 1

\* C8: the dependency list set_python writes for version py is the base
\* manifest's list with the first entry named exactly "python" replaced by
\* "python={py}.*", every other entry and the length unchanged; the base
\* manifest is never written.
C8_OnlyFirstPythonPinned ==
    /\ [](fs[ENV_FILE] = fs0[ENV_FILE] /\ Count(writes, ENV_FILE) = 0)
    /\ [][ (pc = "set_python" /\ Count(writes', env_file) # Count(writes, env_file)) =>
              LET base == Items(fs[ENV_FILE])
                  written == Items(fs'[env_file])
                  named == {k \in 1..Len(base) : SplitEq0(base[k]) = <<"p","y","t","h","o","n">>}
                  first == IF named = {} THEN 0 ELSE Min(named)
              IN  /\ Len(written) = Len(base)
                  /\ \A k \in 1..Len(base) :
                        written[k] = IF k = first THEN <<"p","y","t","h","o","n","=">> \o py \o <<".","*">>
                                     ELSE base[k] ]_vars

\* an environment file was written from a manifest in which python-dateutil
\* comes first and a second python entry comes last
C8_Witness ==
    /\ pc = "freeze"
    /\ Count(writes, env_file) = 1
    /\ Items(fs[ENV_FILE]) = << <<"p","y","t","h","o","n","-","d","a","t","e","u","t","i","l","=","2">>, <<"p","y","t","h","o","n","=","3",".","7">>, <<"p","y","t","h","o","n","=","3",".","6">> >>
    /\ Items(fs[env_file]) = << <<"p","y","t","h","o","n","-","d","a","t","e","u","t","i","l","=","2">>, <<"p","y","t","h","o","n","=","3",".","8",".","*">>, <<"p","y","t","h","o","n","=","3",".","6">> >>

\* C9: when freeze is not skipped, conda-lock succeeds and freeze returns, the
\* destination is the "AUTO GENERATED FROM" line, the "Frozen on" line, then
\* the tool's output as the tool wrote it, and the temporary file is gone;
\* when freeze is skipped, conda-lock is not run and no file appears,
\* disappears or changes.
C9_StampedLock ==
    [][ pc = "freeze" =>
          IF Exists(fs, frozen_file) /\ ~HasMarker(fs[frozen_file])
          THEN tool' = tool /\ fs' = fs
          ELSE (pc' # "error" /\ Last(tool').rc = 0) =>
                  /\ Len(tool') = Len(tool) + 1
                  /\ Len(fs'[frozen_file]) = 2 + Len(Last(tool').out)
                  /\ StartsWith(fs'[frozen_file][1], <<"#"," ","A","U","T","O"," ","G","E","N","E","R","A","T","E","D"," ","F","R","O","M"," ">>)
                  /\ StartsWith(fs'[frozen_file][2], <<"#"," ","F","r","o","z","e","n"," ","o","n"," ">>)
                  /\ SubSeq(fs'[frozen_file], 3, Len(fs'[frozen_file])) = Last(tool').out
                  /\ ~Exists(fs', frozen_file \o <<".">> \o platform) ]_vars

\* freeze has returned after a successful conda-lock run
C9_Witness ==
    /\ pc = "copy"
    /\ Len(tool) = 1 /\ tool[1].rc = 0 /\ Len(tool[1].out) > 1
    /\ Count(writes, frozen_file) = 1
    /\ fs[frozen_file][3] = ExplicitLine
    /\ ~Exists(fs, FrozenTempfile(frozen_file, platform))

\* C10: environment-{platform}.lock is written only by the copy of the
\* iteration whose version is "3.7", after freeze was called for that pair;
\* after a completed run with "3.7" among the versions it equals
\* environment.py-3.7-{platform}.lock for every platform of the run; a run
\* without "3.7" among its versions leaves every such file as it was.
C10_DefaultLockTracks37 ==
    /\ [][ \A pl \in Platforms :
              ( \/ Exists(fs', FROZEN_FILE_T(pl)) # Exists(fs, FROZEN_FILE_T(pl))
                \/ Exists(fs, FROZEN_FILE_T(pl)) /\ fs'[FROZEN_FILE_T(pl)] # fs[FROZEN_FILE_T(pl)]
                \/ Count(writes', FROZEN_FILE_T(pl)) # Count(writes, FROZEN_FILE_T(pl)) ) =>
                  /\ pc = "copy"
                  /\ py = Py37
                  /\ platform = pl
                  /\ Last(calls) = Call("freeze", Py37, pl) ]_vars
    /\ []( (pc = "done" /\ Py37 \in Range(args.py)) =>
              \A pl \in Range(args.platform) :
                  /\ Exists(fs, FROZEN_FILE_T(pl))
                  /\ fs[FROZEN_FILE_T(pl)] = fs[FrozenFile(ENV_FILE_T(Py37), pl)] )
    /\ []( (pc # "parse" /\ Py37 \notin Range(args.py)) =>
              \A pl \in Platforms :
                  /\ Exists(fs, FROZEN_FILE_T(pl)) = Exists(fs0, FROZEN_FILE_T(pl))
                  /\ Exists(fs0, FROZEN_FILE_T(pl)) => fs[FROZEN_FILE_T(pl)] = fs0[FROZEN_FILE_T(pl)]
                  /\ Count(writes, FROZEN_FILE_T(pl)) = 0 )

\* a run over 3.7 and 3.8 has completed and has copied fresh locks onto the
\* default lock files
C10_Witness ==
    /\ pc = "done"
    /\ args.py = << Py37, <<"3",".","8">> >>
    /\ \A pl \in Range(args.platform) :
          /\ Count(writes, FROZEN_FILE_T(pl)) = 1
          /\ Count(writes, FrozenFile(ENV_FILE_T(Py37), pl)) = 1
          /\ fs[FROZEN_FILE_T(pl)] = fs[FrozenFile(ENV_FILE_T(Py37), pl)]
          /\ fs[FROZEN_FILE_T(pl)] # fs[FrozenFile(ENV_FILE_T(<<"3",".","8">>), pl)]

====
